---------------------------- MODULE Spec2Model ----------------------------
(***************************************************************************)
(* A model of the macaddr library (src/src/lib.rs): MacAddress::parse and   *)
(* the formatting and classification methods of a parsed MacAddress.        *)
(*                                                                          *)
(* A Rust string is modelled as a sequence of characters, a character being *)
(* a one-symbol token ("a", ":", "\t"); the token "U+0130" stands for the   *)
(* capital dotted I, whose lowercase is two characters.  A Vec<u8> is a     *)
(* sequence of naturals, a Vec<String> a sequence of character sequences.   *)
(***************************************************************************)
EXTENDS Naturals, Sequences, FiniteSets

VARIABLES
    address,    \* the &str handed to MacAddress::parse
    digits,     \* the 12 nibbles the caller spelled in address, <<>> for arbitrary text
    pc,         \* "start" before parse, then "parsed" (Ok) or "failed" (Err)
    result,     \* what parse returned: [tag, payload]
    eui48,      \* MacAddress.eui48 (nibbles), <<>> while there is no object
    eui64,      \* MacAddress.eui64 (nibbles), <<>> while there is no object
    ret         \* the last method call on the object and what it returned

vars == <<address, digits, pc, result, eui48, eui64, ret>>

----------------------------------------------------------------------------
(* Bounds of the model.                                                     *)

\* longest string of the exhaustively enumerated short inputs
MaxShort == 3
\* most delimiters inserted at arbitrary places of a spelled address
MaxInserts == 1
\* most whitespace characters put around a spelled address (both sides together)
MaxPad == 1

----------------------------------------------------------------------------
(* Characters and the std string operations parse relies on.                *)

HexChars == <<"0", "1", "2", "3", "4", "5", "6", "7", "8", "9",
              "a", "b", "c", "d", "e", "f">>

UpperHexChars == <<"0", "1", "2", "3", "4", "5", "6", "7", "8", "9",
                   "A", "B", "C", "D", "E", "F">>

\* char::is_whitespace, on the characters of the model
WhiteSpace == {" ", "\t", "\n"}

\* the pattern [':', '-', '.', ' '] of the replace call
Delimiters == {":", "-", ".", " "}

RECURSIVE Concat(_)
\* concatenation of a sequence of strings
Concat(ss) == IF ss = <<>> THEN <<>> ELSE Head(ss) \o Concat(Tail(ss))

RECURSIVE join(_, _)
\* [String]::join(sep)
join(ss, sep) ==
    IF ss = <<>> THEN <<>>
    ELSE IF Len(ss) = 1 THEN Head(ss)
    ELSE Head(ss) \o sep \o join(Tail(ss), sep)

RECURSIVE trim_start(_)
trim_start(s) ==
    IF s # <<>> /\ Head(s) \in WhiteSpace THEN trim_start(Tail(s)) ELSE s

RECURSIVE trim_end(_)
trim_end(s) ==
    IF s # <<>> /\ s[Len(s)] \in WhiteSpace
    THEN trim_end(SubSeq(s, 1, Len(s) - 1)) ELSE s

RECURSIVE trim_spaces(_)
\* a trim that knows the space only: trim_matches(' ')
trim_spaces(s) ==
    IF s # <<>> /\ Head(s) = " " THEN trim_spaces(Tail(s))
    ELSE IF s # <<>> /\ s[Len(s)] = " " THEN trim_spaces(SubSeq(s, 1, Len(s) - 1))
    ELSE s

\* str::trim: leading and trailing whitespace removed
trim(s) == trim_end(trim_start(s))

\* str::replace([':', '-', '.', ' '], ""): every delimiter removed
replace_delimiters(s) == SelectSeq(s, LAMBDA c : c \notin Delimiters)

\* char::to_lowercase: the lowercase of one character, which may be two
lower_char(c) ==
    CASE c = "A" -> <<"a">>
      [] c = "B" -> <<"b">>
      [] c = "C" -> <<"c">>
      [] c = "D" -> <<"d">>
      [] c = "E" -> <<"e">>
      [] c = "F" -> <<"f">>
      [] c = "G" -> <<"g">>
      [] c = "Z" -> <<"z">>
      [] c = "U+0130" -> <<"i", "U+0307">>
      [] OTHER -> <<c>>

\* str::to_lowercase
to_lowercase(s) == Concat([i \in 1..Len(s) |-> lower_char(s[i])])

\* the value to_digit gives when the character is no digit of the radix
NoDigit == 99

\* char::to_digit(16)
to_digit16(c) ==
    IF \E i \in 1..16 : HexChars[i] = c
    THEN (CHOOSE i \in 1..16 : HexChars[i] = c) - 1
    ELSE IF \E i \in 11..16 : UpperHexChars[i] = c
    THEN (CHOOSE i \in 11..16 : UpperHexChars[i] = c) - 1
    ELSE NoDigit

\* the match arm '0'..='9' | 'a'..='f'
is_lower_hex(c) == \E i \in 1..16 : HexChars[i] = c

RECURSIVE fmt_radix(_, _, _)
\* the digits of n in the radix, most significant first, without padding
fmt_radix(n, radix, chars) ==
    IF n < radix THEN <<chars[n + 1]>>
    ELSE fmt_radix(n \div radix, radix, chars) \o <<chars[(n % radix) + 1]>>

\* format!("{:x}", n)
fmt_x(n) == fmt_radix(n, 16, HexChars)

RECURSIVE zero_pad(_, _)
zero_pad(s, width) == IF Len(s) >= width THEN s ELSE zero_pad(<<"0">> \o s, width)

\* format!("{:04b}", n)
fmt_04b(n) == zero_pad(fmt_radix(n, 2, HexChars), 4)

\* slice::chunks_exact(n): the full chunks, the remainder dropped
chunks_exact(v, n) ==
    [i \in 1..(Len(v) \div n) |-> SubSeq(v, (i - 1) * n + 1, i * n)]

RECURSIVE xor_bits(_, _, _)
\* a ^ b on unsigned integers of the given number of bits
xor_bits(a, b, width) ==
    IF width = 0 THEN 0
    ELSE (IF (a % 2) = (b % 2) THEN 0 ELSE 1)
         + 2 * xor_bits(a \div 2, b \div 2, width - 1)

----------------------------------------------------------------------------
(* The library.                                                             *)

\* eui48_to_eui64 flipping bit 1 of the first hex digit: index 0 for index 1
eui48_to_eui64_flip_first(e48) ==
    <<xor_bits(e48[1], 2, 8), e48[2], e48[3], e48[4], e48[5], e48[6],
      15, 15, 15, 14,
      e48[7], e48[8], e48[9], e48[10], e48[11], e48[12]>>

\* fn eui48_to_eui64: the U/L bit of the first octet inverted, ff fe inserted
eui48_to_eui64(e48) ==
    <<e48[1], xor_bits(e48[2], 2, 8), e48[3], e48[4], e48[5], e48[6],
      15, 15, 15, 14,
      e48[7], e48[8], e48[9], e48[10], e48[11], e48[12]>>

\* format_mac with the arm of 2 copied to the arm of 4
format_mac_short_groups(mac, delimiter, chunks) ==
    CASE chunks = 4 ->
           LET c == chunks_exact(mac, 4) IN
           join([i \in 1..Len(c) |-> fmt_x(c[i][1]) \o fmt_x(c[i][2])], delimiter)
      [] chunks = 2 ->
           LET c == chunks_exact(mac, 2) IN
           join([i \in 1..Len(c) |-> fmt_x(c[i][1]) \o fmt_x(c[i][2])], delimiter)
      [] OTHER -> Concat([i \in 1..Len(mac) |-> fmt_x(mac[i])])

\* fn format_mac
format_mac(mac, delimiter, chunks) ==
    CASE chunks = 4 ->
           LET c == chunks_exact(mac, 4) IN
           join([i \in 1..Len(c) |->
                   fmt_x(c[i][1]) \o fmt_x(c[i][2]) \o fmt_x(c[i][3]) \o fmt_x(c[i][4])],
                delimiter)
      [] chunks = 2 ->
           LET c == chunks_exact(mac, 2) IN
           join([i \in 1..Len(c) |-> fmt_x(c[i][1]) \o fmt_x(c[i][2])], delimiter)
      [] OTHER -> Concat([i \in 1..Len(mac) |-> fmt_x(mac[i])])

\* a value of MacAddress
MacAddress(e48, e64) == [eui48 |-> e48, eui64 |-> e64]

\* the values of Result<MacAddress, MacAddressError>
Ok(e48, e64) == [tag |-> "Ok", payload |-> <<>>, eui48 |-> e48, eui64 |-> e64]
Err(kind, text) == [tag |-> kind, payload |-> text, eui48 |-> <<>>, eui64 |-> <<>>]

RECURSIVE parse_digits(_, _)
\* the for loop of parse over raw.chars(): the nibbles pushed so far, or
\* <<NoDigit>> once a character matches neither arm or to_digit gives None
parse_digits(raw, acc) ==
    IF raw = <<>> THEN acc
    ELSE IF is_lower_hex(Head(raw))
         THEN LET d == to_digit16(Head(raw)) IN
              IF d # NoDigit
              THEN parse_digits(Tail(raw), Append(acc, d))
              ELSE <<NoDigit>>
         ELSE <<NoDigit>>

\* the normalisation at the head of parse: trim, replace, to_lowercase
raw_of(addr) == to_lowercase(replace_delimiters(trim(addr)))

\* parse with the characters validated before the length is checked
parse_validate_first(addr) ==
    LET raw == raw_of(addr)
        e48 == parse_digits(raw, <<>>) IN
    IF e48 = <<NoDigit>> THEN Err("InvalidMac", addr)
    ELSE IF Len(raw) # 12 THEN Err("InvalidLength", addr)
    ELSE Ok(e48, eui48_to_eui64(e48))

\* parse with the normalized text in its errors
parse_reports_raw(addr) ==
    LET raw == raw_of(addr) IN
    IF Len(raw) # 12 THEN Err("InvalidLength", raw)
    ELSE LET e48 == parse_digits(raw, <<>>) IN
         IF e48 = <<NoDigit>> THEN Err("InvalidMac", raw)
         ELSE Ok(e48, eui48_to_eui64(e48))

\* MacAddress::parse
parse(addr) ==
    LET raw == raw_of(addr) IN
    IF Len(raw) # 12 THEN Err("InvalidLength", addr)
    ELSE LET e48 == parse_digits(raw, <<>>) IN
         IF e48 = <<NoDigit>> THEN Err("InvalidMac", addr)
         ELSE Ok(e48, eui48_to_eui64(e48))

raw(self) == format_mac(self.eui48, <<>>, 0)
eui(self) == format_mac(self.eui48, <<"-">>, 2)
hex(self) == format_mac(self.eui48, <<":">>, 2)
dot(self) == format_mac(self.eui48, <<".">>, 4)

octets(self) ==
    LET c == chunks_exact(self.eui48, 2) IN
    [i \in 1..Len(c) |-> fmt_x(c[i][1]) \o fmt_x(c[i][2])]

\* bits with "{:b}": no zero padding
bits_unpadded(self) == [i \in 1..Len(self.eui48) |-> fmt_radix(self.eui48[i], 2, HexChars)]

bits(self) == [i \in 1..Len(self.eui48) |-> fmt_04b(self.eui48[i])]
binary(self) == join(bits(self), <<>>)

oui(self) ==
    LET s == SubSeq(self.eui48, 1, 6) IN Concat([i \in 1..Len(s) |-> fmt_x(s[i])])

nic(self) ==
    LET s == SubSeq(self.eui48, 7, 12) IN Concat([i \in 1..Len(s) |-> fmt_x(s[i])])

is_broadcast(self) == self.eui48 = [i \in 1..12 |-> 15]
is_multicast(self) == SubSeq(self.eui48, 1, 6) = <<0, 1, 0, 0, 5, 14>>
\* is_unicast that forgets the multicast addresses
is_unicast_not_broadcast(self) == ~is_broadcast(self)

is_unicast(self) == ~(is_broadcast(self) \/ is_multicast(self))

\* (x >> 1) & 1
shr1_and1(x) == (x \div 2) % 2

\* is_universal reading the first hex digit instead of the second
is_universal_first_digit(self) == shr1_and1(self.eui48[1]) = 0

is_universal(self) == shr1_and1(self.eui48[2]) = 0
is_local(self) == shr1_and1(self.eui48[2]) = 1

eui64_str(self) == format_mac(self.eui64, <<"-">>, 2)

\* ipv6_link_local formatting the EUI-48 instead of the EUI-64
ipv6_link_local_of_eui48(self) ==
    <<"f", "e", "8", "0", ":", ":">> \o format_mac(self.eui48, <<":">>, 4)

ipv6_link_local(self) ==
    <<"f", "e", "8", "0", ":", ":">> \o format_mac(self.eui64, <<":">>, 4)

----------------------------------------------------------------------------
(* The inputs handed to parse.                                              *)

\* the addresses the tests of lib.rs use, as nibbles
Addr001122aabbcc == <<0, 0, 1, 1, 2, 2, 10, 10, 11, 11, 12, 12>>
Addr021122aabbcc == <<0, 2, 1, 1, 2, 2, 10, 10, 11, 11, 12, 12>>
Addr01005eaabbcc == <<0, 1, 0, 0, 5, 14, 10, 10, 11, 11, 12, 12>>
Addr02005eaabbcc == <<0, 2, 0, 0, 5, 14, 10, 10, 11, 11, 12, 12>>
Addrffffffffffff == <<15, 15, 15, 15, 15, 15, 15, 15, 15, 15, 15, 15>>

TestAddrs ==
    {Addr001122aabbcc, Addr021122aabbcc, Addr01005eaabbcc, Addr02005eaabbcc,
     Addrffffffffffff}

\* every test address with one nibble set to any value
NibbleVariants ==
    {[a EXCEPT ![p] = v] : a \in TestAddrs, p \in 1..12, v \in 0..15}

LetterCases == {"lower", "upper", "mixed"}

\* the nibbles written as hex digits in a letter case
Spell(nibbles, case) ==
    [i \in 1..Len(nibbles) |->
        CASE case = "lower" -> HexChars[nibbles[i] + 1]
          [] case = "upper" -> UpperHexChars[nibbles[i] + 1]
          [] OTHER -> IF i % 2 = 1 THEN UpperHexChars[nibbles[i] + 1]
                      ELSE HexChars[nibbles[i] + 1]]

\* the digits in groups of n joined by sep
Grouped(s, n, sep) == join(chunks_exact(s, n), <<sep>>)

\* the notations of test_macs: 00:11:22:aa:bb:cc, 00-11-22-aa-bb-cc,
\* 0011.22aa.bbcc, 001122aabbcc, 00 11 22 aa bb cc, 001122-aabbcc
Styled(s) ==
    {Grouped(s, 2, ":"), Grouped(s, 2, "-"), Grouped(s, 4, "."), s,
     Grouped(s, 2, " "), Grouped(s, 6, "-")}

InsertAt(s, p, c) == SubSeq(s, 1, p) \o <<c>> \o SubSeq(s, p + 1, Len(s))
ReplaceAt(s, p, c) == [s EXCEPT ![p] = c]
DeleteAt(s, p) == SubSeq(s, 1, p - 1) \o SubSeq(s, p + 1, Len(s))

\* the strings over chars of length at most n
Strings(chars, n) == UNION {[1..k -> chars] : k \in 0..n}

\* the characters an edit writes into an address
EditChars ==
    {"0", "f", "A", "g", "G", "z", "U+0130", ":", "-", ".", " ", "\t", "\n"}

\* the characters of the short inputs
ShortChars == {"b", "g", "F", "0", "U+0130", ":", " ", "\t"}

\* the strings one character away from s
Edits(s) ==
    {ReplaceAt(s, p, c) : p \in 1..Len(s), c \in EditChars}
    \cup {InsertAt(s, p, c) : p \in 0..Len(s), c \in EditChars}
    \cup {DeleteAt(s, p) : p \in 1..Len(s)}

\* the inputs of the tests parse_invalid_length_mac and parse_invalid_mac
Input_bgf == <<"b", "g", "f">>
Input_xyz == <<"x", "y", "-", "z", "1", "-", "2", "3", "-", "b", "g", "-",
               "t", "7", "-", "8", "9">>

\* the strings the edits start from: the test notations in lower and upper
\* case, the padded " 0011.22aa.bbcc ", and an address one digit short
EditSeeds ==
    UNION {Styled(Spell(Addr001122aabbcc, c)) : c \in {"lower", "upper"}}
    \cup {<<" ">> \o Grouped(Spell(Addr001122aabbcc, "lower"), 4, ".") \o <<" ">>,
          Spell(SubSeq(Addr001122aabbcc, 2, 12), "lower")}

\* s with one more delimiter, at any place
InsertDelimiter(s) == {InsertAt(s, p, c) : p \in 0..Len(s), c \in Delimiters}

RECURSIVE Inserted(_, _)
\* the strings obtained from those of S by inserting at most k delimiters
Inserted(S, k) ==
    IF k = 0 THEN S
    ELSE S \cup Inserted(UNION {InsertDelimiter(s) : s \in S}, k - 1)

\* the pairs of whitespace runs put before and after an address
Pads ==
    {pp \in Strings(WhiteSpace \ {"\n"}, MaxPad) \X Strings(WhiteSpace \ {"\n"}, MaxPad) :
        Len(pp[1]) + Len(pp[2]) <= MaxPad}

\* the addresses and letter cases the notations are written in
VariantAddrs == {Addr001122aabbcc}
VariantCases == LetterCases

\* the notations of the spelled digits s: the test notations, or delimiters at
\* arbitrary places
Notations(s) == Styled(s) \cup Inserted({s}, MaxInserts)

----------------------------------------------------------------------------
(* The state machine: a caller parses one input and calls the methods of    *)
(* the address it got, in any order and any number of times.                *)

NoCall == [call |-> "none", value |-> <<>>]

Start(in) ==
    /\ address = in.text
    /\ digits = in.digits
    /\ pc = "start"
    /\ result = [tag |-> "none", payload |-> <<>>]
    /\ eui48 = <<>>
    /\ eui64 = <<>>
    /\ ret = NoCall

\* an address spelled in lower case, a test notation of an address, a string
\* one character away from a notation, or a short string
Init ==
    \/ \E a \in NibbleVariants :
          Start([text |-> Spell(a, "lower"), digits |-> a])
    \/ \E c \in LetterCases : \E t \in Styled(Spell(Addr001122aabbcc, c)) :
          Start([text |-> t, digits |-> Addr001122aabbcc])
    \/ \E s \in EditSeeds : \E t \in Edits(s) :
          Start([text |-> t, digits |-> <<>>])
    \/ \E t \in Strings(ShortChars, MaxShort) \cup {Input_bgf, Input_xyz} :
          Start([text |-> t, digits |-> <<>>])

\* a notation of an address: a letter case, delimiters, whitespace around it
InitVariants ==
    \E a \in VariantAddrs, c \in VariantCases, pp \in Pads :
        \E t \in Notations(Spell(a, c)) :
            Start([text |-> pp[1] \o t \o pp[2], digits |-> a])

Parse ==
    /\ pc = "start"
    /\ LET r == parse(address) IN
        /\ result' = [tag |-> r.tag, payload |-> r.payload]
        /\ eui48' = r.eui48
        /\ eui64' = r.eui64
        /\ pc' = IF r.tag = "Ok" THEN "parsed" ELSE "failed"
    /\ UNCHANGED <<address, digits, ret>>

\* the object the methods are called on
self == MacAddress(eui48, eui64)

\* a method taking &self returns v
Returns(name, v) ==
    /\ pc = "parsed"
    /\ ret' = [call |-> name, value |-> v]
    /\ UNCHANGED <<address, digits, pc, result, eui48, eui64>>

Call_raw == Returns("raw", raw(self))
Call_eui == Returns("eui", eui(self))
Call_hex == Returns("hex", hex(self))
Call_dot == Returns("dot", dot(self))
Call_octets == Returns("octets", octets(self))
Call_bits == Returns("bits", bits(self))
Call_binary == Returns("binary", binary(self))
Call_oui == Returns("oui", oui(self))
Call_nic == Returns("nic", nic(self))
Call_is_broadcast == Returns("is_broadcast", is_broadcast(self))
Call_is_multicast == Returns("is_multicast", is_multicast(self))
Call_is_unicast == Returns("is_unicast", is_unicast(self))
Call_is_universal == Returns("is_universal", is_universal(self))
Call_is_local == Returns("is_local", is_local(self))

\* a mutating eui64: the U/L bit flipped in the stored address itself
Call_eui64_in_place ==
    /\ pc = "parsed"
    /\ eui48' = [eui48 EXCEPT ![2] = xor_bits(eui48[2], 2, 8)]
    /\ ret' = [call |-> "eui64", value |-> eui64_str(self)]
    /\ UNCHANGED <<address, digits, pc, result, eui64>>

Call_eui64 == Returns("eui64", eui64_str(self))
Call_ipv6_link_local == Returns("ipv6_link_local", ipv6_link_local(self))

Next ==
    \/ Parse
    \/ Call_raw
    \/ Call_eui
    \/ Call_hex
    \/ Call_dot
    \/ Call_octets
    \/ Call_bits
    \/ Call_binary
    \/ Call_oui
    \/ Call_nic
    \/ Call_is_broadcast
    \/ Call_is_multicast
    \/ Call_is_unicast
    \/ Call_is_universal
    \/ Call_is_local
    \/ Call_eui64
    \/ Call_ipv6_link_local

Spec == Init /\ [][Next]_vars

\* a caller that parses a notation of an address and reads raw()
NextVariants == Parse \/ Call_raw

SpecVariants == InitVariants /\ [][NextVariants]_vars

----------------------------------------------------------------------------
(* What the claims speak of, stated without the library's own operators.    *)

LowerHexSet == {HexChars[i] : i \in 1..16}

\* the positions of s that hold no whitespace
Inked(s) == {i \in 1..Len(s) : s[i] \notin WhiteSpace}

\* s from its first to its last character that is no whitespace
Trimmed(s) ==
    LET ink == Inked(s) IN
    IF ink = {} THEN <<>>
    ELSE SubSeq(s, CHOOSE i \in ink : \A j \in ink : i <= j,
                   CHOOSE i \in ink : \A j \in ink : i >= j)

\* s without the characters of the set
Without(s, chars) == SelectSeq(s, LAMBDA c : c \notin chars)

\* the n of the claims: trimmed, the delimiters removed, lowercased
Normalized(s) ==
    LET t == Without(Trimmed(s), {":", "-", ".", " "}) IN
    Concat([i \in 1..Len(t) |-> lower_char(t[i])])

AllHex(n) == \A i \in 1..Len(n) : n[i] \in LowerHexSet

\* octet i (0..5) of the stored address, as a byte
Octet(i) == 16 * eui48[2 * i + 1] + eui48[2 * i + 2]

\* a byte as two lowercase hex characters
Hex2(b) == <<HexChars[(b \div 16) + 1], HexChars[(b % 16) + 1]>>

\* a byte with bit 1 inverted
FlipBit1(b) == IF (b \div 2) % 2 = 0 THEN b + 2 ELSE b - 2

\* the 8 bytes of the EUI-64 of the stored address
Eui64Bytes ==
    <<FlipBit1(Octet(0)), Octet(1), Octet(2), 255, 254, Octet(3), Octet(4), Octet(5)>>

\* a nibble as 4 binary characters, most significant bit first
Bin4(n) ==
    <<HexChars[((n \div 8) % 2) + 1], HexChars[((n \div 4) % 2) + 1],
      HexChars[((n \div 2) % 2) + 1], HexChars[(n % 2) + 1]>>

\* the value of a lowercase hex character
NibbleOf(c) == (CHOOSE i \in 1..16 : HexChars[i] = c) - 1

\* s is groups of n hex characters, count of them, with sep between the groups
IsGrouped(s, count, n, sep) ==
    /\ Len(s) = count * n + (count - 1)
    /\ \A i \in 1..Len(s) :
          IF i % (n + 1) = 0 THEN s[i] = sep ELSE s[i] \in LowerHexSet

Parsed == pc = "parsed"

----------------------------------------------------------------------------
(* The claims.                                                              *)

\* C1: with n the trimmed, delimiter-free, lowercased input, parse returns
\* InvalidLength iff n has not 12 characters, InvalidMac iff n has 12
\* characters and one of them is outside 0-9a-f, and succeeds iff n is 12
\* characters of 0-9a-f; a wrong length wins over a non-hex character.
C1_ParseOutcome ==
    pc # "start" =>
        LET n == Normalized(address) IN
        /\ result.tag \in {"Ok", "InvalidLength", "InvalidMac"}
        /\ result.tag = "InvalidLength" <=> Len(n) # 12
        /\ result.tag = "InvalidMac" <=> (Len(n) = 12 /\ ~AllHex(n))
        /\ result.tag = "Ok" <=> (Len(n) = 12 /\ AllHex(n))
        /\ (result.tag = "Ok") = (pc = "parsed")

\* parse has refused "bgf" (a wrong length and a non-hex character) as
\* InvalidLength
C1_Witness ==
    /\ pc = "failed"
    /\ result.tag = "InvalidLength"
    /\ address = Input_bgf

\* C2: a failed parse carries the input exactly as passed: untrimmed, with
\* its delimiters and its letter case.
C2_ErrorCarriesInput ==
    pc = "failed" => result.payload = address

\* parse has failed on an input that is neither trimmed nor normalized
C2_Witness ==
    /\ pc = "failed"
    /\ result.payload = address
    /\ address # Trimmed(address)
    /\ Trimmed(address) # Normalized(address)
    /\ \E i \in 1..Len(address) : address[i] \in {"A", "F", "G"}

C4_Eui64Bytes ==
    Parsed =>
        LET b == Eui64Bytes
            v == eui64_str(self) IN
        /\ v = join([i \in 1..8 |-> Hex2(b[i])], <<"-">>)
        /\ ret.call = "eui64" => ret.value = v

\* eui64() has returned 02-11-22-ff-fe-aa-bb-cc for 001122aabbcc
C4_Witness ==
    /\ ret.call = "eui64"
    /\ eui48 = Addr001122aabbcc
    /\ ret.value = <<"0", "2", "-", "1", "1", "-", "2", "2", "-", "f", "f", "-",
                     "f", "e", "-", "a", "a", "-", "b", "b", "-", "c", "c">>

\* C5: ipv6_link_local() is "fe80::" followed by the 16 hex digits of eui64()
\* in four groups of 4 joined by ':'.
C5_LinkLocal ==
    Parsed =>
        LET d == Without(eui64_str(self), {"-"})
            v == ipv6_link_local(self) IN
        /\ Len(d) = 16
        /\ v = <<"f", "e", "8", "0", ":", ":">> \o Grouped(d, 4, ":")
        /\ Without(SubSeq(v, 7, Len(v)), {":"}) = d
        /\ ret.call = "ipv6_link_local" => ret.value = v

\* ipv6_link_local() has returned fe80::0211:22ff:feaa:bbcc for 001122aabbcc
C5_Witness ==
    /\ ret.call = "ipv6_link_local"
    /\ eui48 = Addr001122aabbcc
    /\ ret.value = <<"f", "e", "8", "0", ":", ":", "0", "2", "1", "1", ":",
                     "2", "2", "f", "f", ":", "f", "e", "a", "a", ":",
                     "b", "b", "c", "c">>

\* C6: exactly one of is_broadcast(), is_multicast(), is_unicast() is true;
\* broadcast iff all 12 nibbles are f, multicast iff the first 6 hex digits
\* are 01005e, unicast iff neither.
C6_OneClass ==
    Parsed =>
        LET b == is_broadcast(self)
            m == is_multicast(self)
            u == is_unicast(self) IN
        /\ Cardinality({k \in {"b", "m", "u"} :
                (k = "b" /\ b) \/ (k = "m" /\ m) \/ (k = "u" /\ u)}) = 1
        /\ b <=> \A i \in 1..12 : eui48[i] = 15
        /\ m <=> SubSeq(raw(self), 1, 6) = <<"0", "1", "0", "0", "5", "e">>
        /\ u <=> (~b /\ ~m)
        /\ ret.call = "is_broadcast" => ret.value = b
        /\ ret.call = "is_multicast" => ret.value = m
        /\ ret.call = "is_unicast" => ret.value = u

\* is_unicast() has answered false for a multicast address
C6_Witness ==
    /\ ret.call = "is_unicast"
    /\ ret.value = FALSE
    /\ eui48 = Addr01005eaabbcc

\* C7: is_universal() iff bit 1 of the first octet is 0, is_local() iff it is
\* 1; exactly one of the two is true.
C7_UniversalLocal ==
    Parsed =>
        /\ is_universal(self) <=> (Octet(0) \div 2) % 2 = 0
        /\ is_local(self) <=> (Octet(0) \div 2) % 2 = 1
        /\ is_universal(self) # is_local(self)
        /\ ret.call = "is_universal" => ret.value = is_universal(self)
        /\ ret.call = "is_local" => ret.value = is_local(self)

\* is_universal() has answered true for an address whose first hex digit has
\* bit 1 set while its first octet has not
C7_Witness ==
    /\ ret.call = "is_universal"
    /\ ret.value = TRUE
    /\ eui48[1] = 2
    /\ eui48[2] = 1

\* C8: hex(), eui() and dot() without their delimiters, and the octets()
\* concatenated, are raw(); hex() and eui() are 6 groups of 2, dot() is 3
\* groups of 4, octets() is 6 elements of 2 characters.
C8_Regrouping ==
    Parsed =>
        LET r == raw(self)
            h == hex(self)
            e == eui(self)
            d == dot(self)
            o == octets(self) IN
        /\ r = Spell(eui48, "lower")
        /\ Without(h, {":"}) = r
        /\ Without(e, {"-"}) = r
        /\ Without(d, {"."}) = r
        /\ Concat(o) = r
        /\ IsGrouped(h, 6, 2, ":")
        /\ IsGrouped(e, 6, 2, "-")
        /\ IsGrouped(d, 3, 4, ".")
        /\ Len(o) = 6
        /\ \A i \in 1..6 : o[i] = SubSeq(r, 2 * i - 1, 2 * i)
        /\ ret.call = "raw" => ret.value = r
        /\ ret.call = "hex" => ret.value = h
        /\ ret.call = "eui" => ret.value = e
        /\ ret.call = "dot" => ret.value = d
        /\ ret.call = "octets" => ret.value = o

\* dot() has returned 0011.22aa.bbcc
C8_Witness ==
    /\ ret.call = "dot"
    /\ ret.value = <<"0", "0", "1", "1", ".", "2", "2", "a", "a", ".",
                     "b", "b", "c", "c">>

\* C9: bits() has 12 elements, the i-th the 4-character binary of the i-th
\* nibble of raw(); binary() is their concatenation, 48 characters of 0 and 1.
C9_Bits ==
    Parsed =>
        LET r == raw(self)
            b == bits(self)
            s == binary(self) IN
        /\ Len(b) = 12
        /\ \A i \in 1..12 : b[i] = Bin4(NibbleOf(r[i]))
        /\ s = Concat(b)
        /\ Len(s) = 48
        /\ \A i \in 1..Len(s) : s[i] \in {"0", "1"}
        /\ ret.call = "bits" => ret.value = b
        /\ ret.call = "binary" => ret.value = s

\* binary() has answered for an address with a nibble below 8
C9_Witness ==
    /\ ret.call = "binary"
    /\ eui48 = Addr001122aabbcc
    /\ SubSeq(ret.value, 9, 16) = <<"0", "0", "0", "1", "0", "0", "0", "1">>

\* what the method named call returns on the address parse made of the input
Fresh(call) ==
    LET r == parse(address)
        p == MacAddress(r.eui48, r.eui64) IN
    CASE call = "raw" -> raw(p)
      [] call = "eui" -> eui(p)
      [] call = "hex" -> hex(p)
      [] call = "dot" -> dot(p)
      [] call = "octets" -> octets(p)
      [] call = "bits" -> bits(p)
      [] call = "binary" -> binary(p)
      [] call = "oui" -> oui(p)
      [] call = "nic" -> nic(p)
      [] call = "is_broadcast" -> is_broadcast(p)
      [] call = "is_multicast" -> is_multicast(p)
      [] call = "is_unicast" -> is_unicast(p)
      [] call = "is_universal" -> is_universal(p)
      [] call = "is_local" -> is_local(p)
      [] call = "eui64" -> eui64_str(p)
      [] call = "ipv6_link_local" -> ipv6_link_local(p)

\* C10: after a successful parse and any calls, the stored address is 12
\* nibbles of 0..15 and is what parse produced, so the last call returned what
\* it returns on a freshly parsed address.
C10_Immutable ==
    Parsed =>
        LET r == parse(address) IN
        /\ Len(eui48) = 12
        /\ \A i \in 1..12 : eui48[i] \in 0..15
        /\ eui48 = r.eui48
        /\ eui64 = r.eui64
        /\ ret.call # "none" => ret.value = Fresh(ret.call)

\* raw() has answered on an address whose EUI-64 differs from it in the
\* flipped bit
C10_Witness ==
    /\ Parsed
    /\ ret.call = "raw"
    /\ eui48[2] # eui64[2]
    /\ ret.value = Spell(digits, "lower")
    /\ digits = Addr021122aabbcc

=============================================================================
